---- MODULE Spec2Model ----
(***************************************************************************)
(* A model of wikipedia_scraper.py: WikipediaScraper.search_wikipedia,     *)
(* get_article_content and scrape_keywords.                                *)
(*                                                                         *)
(* Text is a sequence of one-character strings, so that strip(), re.sub(), *)
(* replace(), lower(), slicing and concatenation are computed character by *)
(* character as Python computes them.  A dict is a sequence of             *)
(* <<key, value>> pairs in insertion order (Python dicts keep the position *)
(* of a key's first insertion when the key is assigned again).             *)
(***************************************************************************)
EXTENDS Integers, Sequences, FiniteSets, TLC

VARIABLES
    keywords,      \* scrape_keywords' argument: the list of keywords
    i,             \* position of the for loop of line 164 (1-based)
    pc,            \* where scrape_keywords stands
    url,           \* local `url` (line 165)
    article_data,  \* local `article_data` (line 167)
    results,       \* local `results` (line 162)
    files,         \* <output_dir>/<name>: name -> record written by to_json
    csv_files,     \* the summary tables written by to_csv, in order
    trace,         \* the requests issued and the pauses taken, in order
    kstate,        \* per list position: pending/resolved/fetched/persisted/skipped
    fn,            \* unit specification: which routine is applied
    input,         \* unit specification: its argument
    called,        \* unit specification: the routine has returned
    output         \* unit specification: its result (<<>> before the call)

vars == <<keywords, i, pc, url, article_data, results, files, csv_files,
          trace, kstate, fn, input, called, output>>

runVars == <<keywords, i, pc, url, article_data, results, files, csv_files,
             trace, kstate>>

fnVars == <<fn, input, called, output>>

\* Python's None where a string is expected (no text holds a multi-character
\* element), and where a dict is expected
None == <<"None">>

NoneRecord == [none |-> TRUE]

----------------------------------------------------------------------------
\* Bounds of the model

\* longest keyword list of a run
MaxKeywords == 3

\* longest generated keyword of the file-name unit specification
MaxNameLen == 3

\* most rows of a generated infobox
MaxRows == 3

\* most heading/paragraph elements of a generated content area
MaxElements == 5

\* how far past the truncation limit generated summaries go
MaxOver == 2

\* most records of a generated result list of the summary unit specification
MaxRecords == 2

----------------------------------------------------------------------------
\* Characters and strings

UpperChars == <<"A","B","C","D","E","F","G","H","I","J","K","L","M",
                "N","O","P","Q","R","S","T","U","V","W","X","Y","Z">>

LowerChars == <<"a","b","c","d","e","f","g","h","i","j","k","l","m",
                "n","o","p","q","r","s","t","u","v","w","x","y","z">>

DigitChars == {"0","1","2","3","4","5","6","7","8","9"}

Range(s) == {s[k] : k \in DOMAIN s}

\* the ASCII characters that \s of the re module matches and str.strip()
\* strips: space, \t, \n, \r, \f, and (written as the characters themselves)
\* the vertical tab U+000B and the separators U+001C, U+001D, U+001E, U+001F
VerticalTab == ""

FileSeparator == ""

GroupSeparator == ""

RecordSeparator == ""

UnitSeparator == ""

SpaceChars == {" ", "\t", "\n", "\r", "\f", VerticalTab, FileSeparator,
               GroupSeparator, RecordSeparator, UnitSeparator}

WordChars == Range(UpperChars) \cup Range(LowerChars) \cup DigitChars \cup {"_"}

UpperSet == Range(UpperChars)

\* \s of the re module and the whitespace of str.strip(), on ASCII text
\* (beyond ASCII, U+0085, U+00A0 and the other Unicode spaces are whitespace
\* too, and \w and lower() reach the Unicode letters: texts here are ASCII)
IsSpace(c) == c \in SpaceChars

\* \w of the re module (ASCII part): letters, digits and the underscore
IsWord(c) == c \in WordChars

\* str.lower() on one character
LowerChar(c) ==
    IF c \in UpperSet
    THEN LowerChars[CHOOSE k \in DOMAIN UpperChars : UpperChars[k] = c]
    ELSE c

\* str.lower()
Lower(s) == [k \in DOMAIN s |-> LowerChar(s[k])]

\* str.replace(old, new) for one-character old and new
Replace(s, old, new) == [k \in DOMAIN s |-> IF s[k] = old THEN new ELSE s[k]]

\* re.sub(r'[^\w\s]', '', s): drop what is neither a word character nor whitespace
RECURSIVE SubNonWordNonSpace(_)
SubNonWordNonSpace(s) ==
    IF s = <<>> THEN <<>>
    ELSE IF IsWord(Head(s)) \/ IsSpace(Head(s))
         THEN <<Head(s)>> \o SubNonWordNonSpace(Tail(s))
         ELSE SubNonWordNonSpace(Tail(s))

RECURSIVE LStrip(_)
LStrip(s) ==
    IF s # <<>> /\ IsSpace(Head(s)) THEN LStrip(Tail(s)) ELSE s

RECURSIVE RStrip(_)
RStrip(s) ==
    IF s # <<>> /\ IsSpace(s[Len(s)]) THEN RStrip(SubSeq(s, 1, Len(s) - 1)) ELSE s

\* str.strip()
Strip(s) == RStrip(LStrip(s))

\* the slice s[:n]
Prefix(s, n) == SubSeq(s, 1, IF Len(s) < n THEN Len(s) ELSE n)

----------------------------------------------------------------------------
\* dicts in insertion order

DictKeys(d) == {d[k][1] : k \in DOMAIN d}

DictGet(d, key) == d[CHOOSE k \in DOMAIN d : d[k][1] = key][2]

\* d[key] = value
DictSet(d, key, value) ==
    IF key \in DictKeys(d)
    THEN [k \in DOMAIN d |-> IF d[k][1] = key THEN <<key, value>> ELSE d[k]]
    ELSE Append(d, <<key, value>>)

----------------------------------------------------------------------------
\* scrape_keywords, lines 173-178: the name of a keyword's record file

JsonSuffix == <<".", "j", "s", "o", "n">>

\* the filename of line 173 without the lower-casing
FilenameNoLower(keyword) == Replace(SubNonWordNonSpace(keyword), " ", "_")

\* filename = re.sub(r'[^\w\s]', '', keyword).replace(' ', '_').lower()
Filename(keyword) == Lower(Replace(SubNonWordNonSpace(keyword), " ", "_"))

\* f"{filename}.json" (the part below output_dir)
JsonName(keyword) == Filename(keyword) \o JsonSuffix

----------------------------------------------------------------------------
\* get_article_content, lines 79-86: the summary
\* a paragraph is [text |-> chars, img |-> BOOLEAN]

RECURSIVE Summary(_)
Summary(paragraphs) ==
    IF paragraphs = <<>> THEN <<>>
    ELSE IF Strip(Head(paragraphs).text) # <<>> /\ ~Head(paragraphs).img
         THEN Strip(Head(paragraphs).text)
         ELSE Summary(Tail(paragraphs))

----------------------------------------------------------------------------
\* get_article_content, lines 88-99: the infobox
\* a row is [th |-> texts of its th cells, td |-> texts of its td cells], in
\* document order; select_one takes the first or gives None when there is none

\* lines 94-99 with the assignment keeping the first value of a header
InfoboxRowKeepFirst(infobox_data, row) ==
    IF row.th # <<>> /\ row.td # <<>>
    THEN IF Strip(row.th[1]) \in DictKeys(infobox_data)
         THEN infobox_data
         ELSE DictSet(infobox_data, Strip(row.th[1]), Strip(row.td[1]))
    ELSE infobox_data

\* lines 94-99: one pass of the loop over the rows
InfoboxRow(infobox_data, row) ==
    IF row.th # <<>> /\ row.td # <<>>
    THEN DictSet(infobox_data, Strip(row.th[1]), Strip(row.td[1]))
    ELSE infobox_data

RECURSIVE InfoboxRows(_, _)
InfoboxRows(infobox_data, rows) ==
    IF rows = <<>> THEN infobox_data
    ELSE InfoboxRows(InfoboxRow(infobox_data, Head(rows)), Tail(rows))

\* lines 89-99; infoboxes are the .infobox elements of the page, each the
\* sequence of its rows; select_one takes the first
Infobox(infoboxes) ==
    IF infoboxes = <<>> THEN <<>> ELSE InfoboxRows(<<>>, infoboxes[1])

----------------------------------------------------------------------------
\* get_article_content, lines 101-113: the sections
\* an element is [name |-> "h2" | "h3" | "p", parts |-> sequence of
\* [cls |-> class of the child, text |-> chars]]: the children of the element

RECURSIVE PartsText(_)
PartsText(parts) ==
    IF parts = <<>> THEN <<>>
    ELSE Head(parts).text \o PartsText(Tail(parts))

\* lines 108-109: the children left once every .mw-editsection is decomposed
Decompose(parts) == SelectSeq(parts, LAMBDA p : p.cls # "mw-editsection")

\* the loop's state is [sections, current_section]

\* lines 106-113 with a paragraph test of `current_section is not None`
SectionStepNotNone(st, element) ==
    IF element.name \in {"h2", "h3"}
    THEN [sections |-> DictSet(st.sections, Strip(PartsText(Decompose(element.parts))), <<>>),
          current_section |-> Strip(PartsText(Decompose(element.parts)))]
    ELSE IF element.name = "p" /\ st.current_section # None
         THEN [st EXCEPT !.sections =
                  DictSet(st.sections, st.current_section,
                          DictGet(st.sections, st.current_section)
                              \o Strip(PartsText(element.parts)) \o <<" ">>)]
         ELSE st

\* lines 106-113: one pass of the loop; `and current_section` is false for
\* None and for the empty string
SectionStep(st, element) ==
    IF element.name \in {"h2", "h3"}
    THEN [sections |-> DictSet(st.sections, Strip(PartsText(Decompose(element.parts))), <<>>),
          current_section |-> Strip(PartsText(Decompose(element.parts)))]
    ELSE IF element.name = "p" /\ st.current_section # None /\ st.current_section # <<>>
         THEN [st EXCEPT !.sections =
                  DictSet(st.sections, st.current_section,
                          DictGet(st.sections, st.current_section)
                              \o Strip(PartsText(element.parts)) \o <<" ">>)]
         ELSE st

RECURSIVE SectionLoop(_, _)
SectionLoop(st, elements) ==
    IF elements = <<>> THEN st
    ELSE SectionLoop(SectionStep(st, Head(elements)), Tail(elements))

\* lines 102-113
Sections(elements) ==
    SectionLoop([sections |-> <<>>, current_section |-> None], elements).sections

----------------------------------------------------------------------------
\* scrape_keywords, lines 185-199: the summary table

\* 200 of line 193
SummaryLimit == 200

Ellipsis == <<".", ".", ".">>

\* lines 189-194 with the comparison of line 193 written >=
SummaryRowAtLimit(item) ==
    [keyword |-> item.keyword,
     title   |-> item.title,
     url     |-> item.url,
     summary |-> IF Len(item.summary) >= SummaryLimit
                 THEN Prefix(item.summary, SummaryLimit) \o Ellipsis
                 ELSE item.summary]

\* lines 189-194: the row of one record
SummaryRow(item) ==
    [keyword |-> item.keyword,
     title   |-> item.title,
     url     |-> item.url,
     summary |-> IF Len(item.summary) > SummaryLimit
                 THEN Prefix(item.summary, SummaryLimit) \o Ellipsis
                 ELSE item.summary]

\* lines 187-194: summary_data
SummaryData(items) == [k \in DOMAIN items |-> SummaryRow(items[k])]

----------------------------------------------------------------------------
\* Unit specification: each routine applied once to a generated argument

SeqsUpTo(S, n) == UNION {[1..m -> S] : m \in 0..n}

\* "C++ Programming!"
CppKeyword == <<"C", "+", "+", " ", "P", "r", "o", "g", "r", "a", "m", "m", "i", "n", "g", "!">>

NameChars == {"C", "c", "+", " ", "_", "\t", "1", VerticalTab}

KeywordInputs == SeqsUpTo(NameChars, MaxNameLen) \cup {CppKeyword}

HeaderCells == {<<>>, << <<"K">> >>, << <<" ", "K">> >>, << <<"J">>, <<"K">> >>}

DataCells == {<<>>, << <<"v">> >>, << <<"w", VerticalTab>>, <<"v">> >>}

RowInputs == [th : HeaderCells, td : DataCells]

InfoboxInputs == {<<>>} \cup {<<rows>> : rows \in SeqsUpTo(RowInputs, MaxRows)}

EditSection == [cls |-> "mw-editsection", text |-> <<"[", "e", "]">>]

Headline(text) == [cls |-> "mw-headline", text |-> text]

TextNode(text) == [cls |-> "", text |-> text]

ElementInputs ==
    { [name |-> "h2", parts |-> <<Headline(<<"A">>), EditSection>>],
      [name |-> "h3", parts |-> <<TextNode(<<" ", "A">>)>>],
      [name |-> "h2", parts |-> <<EditSection>>],
      [name |-> "h3", parts |-> <<Headline(<<"B">>), EditSection>>],
      [name |-> "p",  parts |-> <<TextNode(<<"x">>)>>],
      [name |-> "p",  parts |-> <<TextNode(<<" ", "y">>), TextNode(<<"z", UnitSeparator>>)>>],
      [name |-> "p",  parts |-> <<>>] }

SectionInputs == SeqsUpTo(ElementInputs, MaxElements)

PatternChars == <<"a", "b", "c">>

\* a text of n characters whose characters tell their positions apart
MkText(n) == [k \in 1..n |-> PatternChars[(k % 3) + 1]]

SummaryLens == {0, 1} \cup ((SummaryLimit - 1)..(SummaryLimit + MaxOver))

RecordInputs ==
    { [keyword |-> <<"k">>, title |-> <<"T">>, url |-> <<"u">>,
       summary |-> MkText(n), infobox |-> <<>>, sections |-> <<>>] : n \in SummaryLens }

ResultInputs == SeqsUpTo(RecordInputs, MaxRecords)

UnitInit ==
    /\ \/ fn = "filename" /\ input \in KeywordInputs
       \/ fn = "infobox"  /\ input \in InfoboxInputs
       \/ fn = "sections" /\ input \in SectionInputs
       \/ fn = "summary"  /\ input \in ResultInputs
    /\ called = FALSE
    /\ output = <<>>
    /\ keywords = <<>> /\ i = 1 /\ pc = "idle" /\ url = None
    /\ article_data = NoneRecord /\ results = <<>> /\ files = <<>>
    /\ csv_files = <<>> /\ trace = <<>> /\ kstate = <<>>

CallFilename ==
    /\ fn = "filename" /\ ~called
    /\ output' = JsonName(input)
    /\ called' = TRUE
    /\ UNCHANGED <<fn, input, runVars>>

CallInfobox ==
    /\ fn = "infobox" /\ ~called
    /\ output' = Infobox(input)
    /\ called' = TRUE
    /\ UNCHANGED <<fn, input, runVars>>

CallSections ==
    /\ fn = "sections" /\ ~called
    /\ output' = Sections(input)
    /\ called' = TRUE
    /\ UNCHANGED <<fn, input, runVars>>

CallSummaryData ==
    /\ fn = "summary" /\ ~called
    /\ output' = SummaryData(input)
    /\ called' = TRUE
    /\ UNCHANGED <<fn, input, runVars>>

UnitNext == CallFilename \/ CallInfobox \/ CallSections \/ CallSummaryData

UnitSpec == UnitInit /\ [][UnitNext]_vars

----------------------------------------------------------------------------
\* search_wikipedia, lines 34-61
\* A URL is a sequence of segments; `"x" in url` is x being one of them.
\* A search response is [url |-> final URL, hrefs |-> the href of each
\* .mw-search-result-heading a, in document order].

Host == "https://en.wikipedia.org"

\* keyword.replace(' ', '+'), line 41
SearchTerm(keyword) == Replace(keyword, " ", "+")

search_wikipedia(response) ==
    IF "/wiki/" \in Range(response.url) /\ "index.php?search=" \notin Range(response.url)
    THEN response.url
    ELSE IF response.hrefs # <<>>
         THEN <<Host>> \o response.hrefs[1]
         ELSE None

----------------------------------------------------------------------------
\* get_article_content, lines 63-153
\* An article response is [status_code, firstHeading |-> texts of the elements
\* #firstHeading, paragraphs, infoboxes, elements].  The references, links and
\* images of the record are not modelled.

\* line 77: select_one gives None and .text raises AttributeError
Raises(response) == response.status_code = 200 /\ response.firstHeading = <<>>

get_article_content(u, response) ==
    IF response.status_code # 200 THEN NoneRecord
    ELSE [title    |-> Strip(response.firstHeading[1]),
          url      |-> u,
          summary  |-> Summary(response.paragraphs),
          infobox  |-> Infobox(response.infoboxes),
          sections |-> Sections(response.elements)]

\* article_data['keyword'] = keyword, line 169
WithKeyword(data, keyword) ==
    [keyword  |-> keyword,
     title    |-> data.title,
     url      |-> data.url,
     summary  |-> data.summary,
     infobox  |-> data.infobox,
     sections |-> data.sections]

----------------------------------------------------------------------------
\* The environment of a run: keyword lists and what the site answers

KeywordPool == { <<"C", "+", "+">>, <<"c">>, <<"A", " ", "b">> }

KeywordLists == SeqsUpTo(KeywordPool, MaxKeywords)

SearchResponses ==
    { [url |-> <<Host, "/wiki/", "Alpha">>, hrefs |-> <<>>],
      [url |-> <<Host, "/w/", "index.php?search=", "q">>,
       hrefs |-> << <<"/wiki/", "Beta">>, <<"/wiki/", "Gamma">> >>],
      [url |-> <<Host, "/w/", "index.php?search=", "q">>, hrefs |-> <<>>],
      [url |-> <<Host, "/w/", "index.php?search=", "/wiki/">>, hrefs |-> <<>>] }

NoPage == [status_code |-> 404, firstHeading |-> <<>>, paragraphs |-> <<>>,
           infoboxes |-> <<>>, elements |-> <<>>]

PageAlpha ==
    [status_code  |-> 200,
     firstHeading |-> << <<" ", "A", "l", "\n">> >>,
     paragraphs   |-> << [text |-> <<" ">>, img |-> FALSE],
                         [text |-> <<"i">>, img |-> TRUE],
                         [text |-> <<" ", "S", ".">>, img |-> FALSE],
                         [text |-> <<"T">>, img |-> FALSE] >>,
     infoboxes    |-> << << [th |-> << <<"K">> >>, td |-> << <<"v">> >>],
                            [th |-> <<>>, td |-> << <<"v">> >>],
                            [th |-> << <<"K", " ">> >>, td |-> << <<"w">> >>] >> >>,
     elements     |-> << [name |-> "p",  parts |-> <<TextNode(<<"S", ".">>)>>],
                         [name |-> "h2", parts |-> <<Headline(<<"A">>), EditSection>>],
                         [name |-> "p",  parts |-> <<TextNode(<<"x">>)>>],
                         [name |-> "p",  parts |-> <<TextNode(<<"y", " ">>)>>] >>]

PageBeta ==
    [status_code |-> 200, firstHeading |-> << <<"B">> >>, paragraphs |-> <<>>,
     infoboxes |-> <<>>, elements |-> <<>>]

PageNoHeading ==
    [status_code |-> 200, firstHeading |-> <<>>, paragraphs |-> <<>>,
     infoboxes |-> <<>>, elements |-> <<>>]

ArticleResponses == {NoPage, PageAlpha, PageBeta, PageNoHeading}

----------------------------------------------------------------------------
\* scrape_keywords, lines 155-201

Request(op, target) == [op |-> op, k |-> i, target |-> target]

\* results.append(article_data) done twice
AppendTwice(rs, data) == Append(Append(rs, data), data)

\* results.append(article_data), line 170
AppendResult(rs, data) == Append(rs, data)

\* to_json that leaves an existing file as it is
WriteJsonKeepExisting(fs, name, data) ==
    [f \in DOMAIN fs \cup {name} |-> IF f \in DOMAIN fs THEN fs[f] ELSE data]

\* to_json(f"{output_dir}/{filename}.json"), lines 174-178: creates or overwrites
WriteJson(fs, name, data) ==
    [f \in DOMAIN fs \cup {name} |-> IF f = name THEN data ELSE fs[f]]

Init ==
    /\ keywords \in KeywordLists
    /\ i = 1
    /\ pc = "for"
    /\ url = None
    /\ article_data = NoneRecord
    /\ results = <<>>
    /\ files = <<>>
    /\ csv_files = <<>>
    /\ trace = <<>>
    /\ kstate = [k \in DOMAIN keywords |-> "pending"]
    /\ fn = "none" /\ input = <<>> /\ called = FALSE /\ output = <<>>

\* lines 164-166 with the pause placed inside `if url:`
SearchNoneNoPause ==
    /\ pc = "for" /\ i <= Len(keywords)
    /\ \E response \in SearchResponses :
          /\ search_wikipedia(response) = None
          /\ url' = None
    /\ trace' = Append(trace, Request("search", SearchTerm(keywords[i])))
    /\ kstate' = [kstate EXCEPT ![i] = "skipped"]
    /\ i' = i + 1
    /\ pc' = "for"
    /\ UNCHANGED <<keywords, article_data, results, files, csv_files, fnVars>>

\* lines 164-166, url falsy: on to the pause
SearchNone ==
    /\ pc = "for" /\ i <= Len(keywords)
    /\ \E response \in SearchResponses :
          /\ search_wikipedia(response) = None
          /\ url' = None
    /\ trace' = Append(trace, Request("search", SearchTerm(keywords[i])))
    /\ kstate' = [kstate EXCEPT ![i] = "skipped"]
    /\ pc' = "sleep"
    /\ UNCHANGED <<keywords, i, article_data, results, files, csv_files, fnVars>>

\* lines 164-166, url truthy
SearchFound ==
    /\ pc = "for" /\ i <= Len(keywords)
    /\ \E response \in SearchResponses :
          /\ search_wikipedia(response) # None
          /\ url' = search_wikipedia(response)
    /\ trace' = Append(trace, Request("search", SearchTerm(keywords[i])))
    /\ kstate' = [kstate EXCEPT ![i] = "resolved"]
    /\ pc' = "fetch"
    /\ UNCHANGED <<keywords, i, article_data, results, files, csv_files, fnVars>>

\* lines 167-168 with a return in place of the skip
FetchNoneReturns ==
    /\ pc = "fetch"
    /\ \E response \in ArticleResponses :
          /\ ~Raises(response)
          /\ get_article_content(url, response) = NoneRecord
          /\ article_data' = NoneRecord
    /\ trace' = Append(trace, Request("fetch", url))
    /\ kstate' = [kstate EXCEPT ![i] = "skipped"]
    /\ pc' = "done"
    /\ UNCHANGED <<keywords, i, url, results, files, csv_files, fnVars>>

\* lines 167-168, article_data is None: on to the pause
FetchNone ==
    /\ pc = "fetch"
    /\ \E response \in ArticleResponses :
          /\ ~Raises(response)
          /\ get_article_content(url, response) = NoneRecord
          /\ article_data' = NoneRecord
    /\ trace' = Append(trace, Request("fetch", url))
    /\ kstate' = [kstate EXCEPT ![i] = "skipped"]
    /\ pc' = "sleep"
    /\ UNCHANGED <<keywords, i, url, results, files, csv_files, fnVars>>

\* line 167, get_article_content raises at line 77: scrape_keywords is left
FetchRaises ==
    /\ pc = "fetch"
    /\ \E response \in ArticleResponses : Raises(response)
    /\ trace' = Append(trace, Request("fetch", url))
    /\ pc' = "raised"
    /\ UNCHANGED <<keywords, i, url, article_data, results, files, csv_files,
                   kstate, fnVars>>

\* lines 167-170, article_data is a record
FetchRecord ==
    /\ pc = "fetch"
    /\ \E response \in ArticleResponses :
          /\ ~Raises(response)
          /\ get_article_content(url, response) # NoneRecord
          /\ article_data' = WithKeyword(get_article_content(url, response), keywords[i])
    /\ results' = AppendResult(results, article_data')
    /\ trace' = Append(trace, Request("fetch", url))
    /\ kstate' = [kstate EXCEPT ![i] = "fetched"]
    /\ pc' = "save"
    /\ UNCHANGED <<keywords, i, url, files, csv_files, fnVars>>

\* lines 173-179
Save ==
    /\ pc = "save"
    /\ files' = WriteJson(files, JsonName(keywords[i]), article_data)
    /\ kstate' = [kstate EXCEPT ![i] = "persisted"]
    /\ pc' = "sleep"
    /\ UNCHANGED <<keywords, i, url, article_data, results, csv_files, trace, fnVars>>

\* the loop stepping over an element
SleepSkipsNext ==
    /\ pc = "sleep"
    /\ trace' = Append(trace, Request("sleep", <<>>))
    /\ i' = i + 2
    /\ pc' = "for"
    /\ UNCHANGED <<keywords, url, article_data, results, files, csv_files,
                   kstate, fnVars>>

\* lines 182-183, and back to line 164
Sleep ==
    /\ pc = "sleep"
    /\ trace' = Append(trace, Request("sleep", <<>>))
    /\ i' = i + 1
    /\ pc' = "for"
    /\ UNCHANGED <<keywords, url, article_data, results, files, csv_files,
                   kstate, fnVars>>

\* lines 185-201 without the test of line 185
FinishAlwaysWrites ==
    /\ pc = "for" /\ i > Len(keywords)
    /\ csv_files' = Append(csv_files, SummaryData(results))
    /\ pc' = "done"
    /\ UNCHANGED <<keywords, i, url, article_data, results, files, trace,
                   kstate, fnVars>>

\* lines 185-201: the loop is over; the summary table, and the return
Finish ==
    /\ pc = "for" /\ i > Len(keywords)
    /\ csv_files' = IF results # <<>>
                    THEN Append(csv_files, SummaryData(results))
                    ELSE csv_files
    /\ pc' = "done"
    /\ UNCHANGED <<keywords, i, url, article_data, results, files, trace,
                   kstate, fnVars>>

Next ==
    \/ SearchNone
    \/ SearchFound
    \/ FetchNone
    \/ FetchRaises
    \/ FetchRecord
    \/ Save
    \/ Sleep
    \/ Finish

Spec == Init /\ [][Next]_vars

----------------------------------------------------------------------------
\* Properties of a run (specification Spec)

Terminal == {"persisted", "skipped"}

\* the list positions whose record was produced, and the place of position
\* k's record among the records produced
Produced == {k \in DOMAIN keywords : kstate[k] \in {"fetched", "persisted"}}

Persisted == {k \in DOMAIN keywords : kstate[k] = "persisted"}

Rank(k) == Cardinality({j \in Produced : j <= k})

Events(op, k) == {e \in DOMAIN trace : trace[e].op = op /\ trace[e].k = k}

\* C1: a keyword whose search gives None or whose fetch gives None (non-200)
\* is skipped by a step that writes no record file and adds nothing to the
\* results; the records and files are those of the other positions; and the
\* run goes on: the pause follows, then line 164 for the next keyword, which
\* can always be taken.
C1_SkipLeavesNoRecordAndContinues ==
    /\ [][\A k \in DOMAIN keywords :
            (kstate[k] # "skipped" /\ kstate'[k] = "skipped")
                => /\ k = i
                   /\ (url' = None \/ article_data' = NoneRecord)
                   /\ results' = results
                   /\ files' = files
                   /\ csv_files' = csv_files
                   /\ pc' = "sleep" /\ i' = i]_vars
    /\ [][(pc = "sleep" /\ kstate[i] = "skipped")
            => (pc' = "for" /\ i' = i + 1 /\ results' = results /\ files' = files)]_vars
    /\ [][(pc = "for" /\ i <= Len(keywords))
            => (Len(trace') = Len(trace) + 1
                /\ trace'[Len(trace')] = [op |-> "search", k |-> i,
                                          target |-> SearchTerm(keywords[i])])]_vars
    /\ [](pc \in {"sleep", "for"} => ENABLED Next)
    /\ [](Len(results) = Cardinality(Produced))
    /\ [](Cardinality(DOMAIN files) <= Cardinality(Persisted))

\* a finished run whose first keyword was skipped at the search, whose second
\* was skipped at the fetch and whose third was persisted
C1_Witness ==
    /\ pc = "done" /\ Len(keywords) = 3
    /\ kstate = <<"skipped", "skipped", "persisted">>
    /\ Events("fetch", 1) = {} /\ Events("fetch", 2) # {}
    /\ Len(results) = 1 /\ Cardinality(DOMAIN files) = 1

\* C2 as stated: at most one record per keyword, repeated keywords included
C2_AtMostOneRecordPerKeyword ==
    \A a, b \in DOMAIN results :
        results[a].keyword = results[b].keyword => a = b

\* C2 as amended: one record per list position that was resolved and fetched,
\* in list order, carrying that position's keyword; so a keyword has as many
\* records as it has such occurrences, at most one when it occurs once.
C2_OneRecordPerFetchedOccurrence ==
    /\ Len(results) = Cardinality(Produced)
    /\ \A k \in Produced : results[Rank(k)].keyword = keywords[k]
    /\ \A kw \in KeywordPool :
          Cardinality({a \in DOMAIN results : results[a].keyword = kw})
              = Cardinality({k \in Produced : keywords[k] = kw})

\* a keyword that occurs twice in the list and has two records
C2_Witness ==
    /\ pc = "done"
    /\ \E a, b \in DOMAIN results :
          a # b /\ results[a].keyword = results[b].keyword

\* the run is over: scrape_keywords returned, or was left by the exception
\* of line 77
RunEnded == pc \in {"done", "raised"}

\* no summary table is written before the loop is over
SummaryOnlyAfterLoop ==
    csv_files # <<>> =>
        (pc = "done" /\ i > Len(keywords)
         /\ \A k \in DOMAIN keywords : kstate[k] \in Terminal)

\* none written when no record was produced, and otherwise exactly one, with
\* one row per record in the order of production (list order)
SummaryIffRecords ==
    /\ (results = <<>> => csv_files = <<>>)
    /\ (results # <<>> =>
          /\ Len(csv_files) = 1
          /\ Len(csv_files[1]) = Len(results)
          /\ \A a \in DOMAIN results :
                /\ csv_files[1][a].keyword = results[a].keyword
                /\ csv_files[1][a].title = results[a].title
                /\ csv_files[1][a].url = results[a].url
          /\ \A k \in Persisted : csv_files[1][Rank(k)].keyword = keywords[k])

\* C3 as stated: no summary table is written before the loop is over, and a
\* run that is over, however it ended, has written none when it produced no
\* record and otherwise exactly one, with one row per record in order.
C3_SummaryIffRecordsInEveryRun ==
    /\ SummaryOnlyAfterLoop
    /\ RunEnded => SummaryIffRecords

\* C3 as amended: no summary table is written before the loop is over; a run
\* that returns has written none when it produced no record and otherwise
\* exactly one, with one row per record in order; a run left by the
\* exception of get_article_content has written none, whatever it produced.
C3_SummaryIffRecords ==
    /\ SummaryOnlyAfterLoop
    /\ pc = "done" => SummaryIffRecords
    /\ pc = "raised" => csv_files = <<>>
    /\ Len(csv_files) <= 1

\* a finished run with a skipped keyword between two persisted ones with
\* different keywords, and a table of two rows
C3_Witness ==
    /\ pc = "done"
    /\ kstate = <<"persisted", "skipped", "persisted">>
    /\ keywords[1] # keywords[3]
    /\ Len(csv_files) = 1 /\ Len(csv_files[1]) = 2
    /\ csv_files[1][1].keyword = keywords[1]
    /\ csv_files[1][2].keyword = keywords[3]

\* the state of a list position changes only along pending->resolved
\* (search gave an address), pending->skipped (it gave None),
\* resolved->fetched (a record came back), resolved->skipped (None came
\* back), fetched->persisted; a fetched position can only and always be
\* persisted next; positions not yet reached are pending
KeywordTransitions ==
    /\ [][\A k \in DOMAIN keywords :
            kstate'[k] # kstate[k] =>
                /\ k = i
                /\ \/ kstate[k] = "pending" /\ kstate'[k] = "resolved"
                         /\ pc = "for" /\ url' # None
                   \/ kstate[k] = "pending" /\ kstate'[k] = "skipped"
                         /\ pc = "for" /\ url' = None
                   \/ kstate[k] = "resolved" /\ kstate'[k] = "fetched"
                         /\ pc = "fetch" /\ article_data' # NoneRecord
                   \/ kstate[k] = "resolved" /\ kstate'[k] = "skipped"
                         /\ pc = "fetch" /\ article_data' = NoneRecord
                   \/ kstate[k] = "fetched" /\ kstate'[k] = "persisted"]_vars
    /\ [][\A k \in DOMAIN keywords :
            kstate[k] = "fetched" => kstate'[k] = "persisted"]_vars
    /\ [](\A k \in DOMAIN keywords : kstate[k] = "fetched" => ENABLED Save)
    /\ [](\A k \in DOMAIN keywords : k > i => kstate[k] = "pending")

\* C8 as stated: the transitions above, and when the run is over, however it
\* ended, every position is persisted or skipped.
C8_EveryKeywordTerminalWhenRunEnds ==
    /\ KeywordTransitions
    /\ [](RunEnded => \A k \in DOMAIN keywords : kstate[k] \in Terminal)

\* C8 as amended: the transitions above; when scrape_keywords returns every
\* position is persisted or skipped; when it is left by the exception of
\* get_article_content, the position being fetched stays resolved, the
\* positions before it are persisted or skipped and those after it pending.
C8_KeywordStateMachine ==
    /\ KeywordTransitions
    /\ [](pc = "done" => \A k \in DOMAIN keywords : kstate[k] \in Terminal)
    /\ [](pc = "raised" =>
            /\ i \in DOMAIN keywords /\ kstate[i] = "resolved"
            /\ \A k \in DOMAIN keywords :
                  /\ k < i => kstate[k] \in Terminal
                  /\ k > i => kstate[k] = "pending")

\* a finished run with a persisted keyword and both kinds of skipped keyword
C8_Witness ==
    /\ pc = "done"
    /\ kstate = <<"persisted", "skipped", "skipped">>
    /\ Events("fetch", 2) = {} /\ Events("fetch", 3) # {}

\* C9: every keyword whose processing is over has had exactly one pause and
\* the others none; a pause is taken for the current keyword once it is
\* persisted or skipped; the search of keyword k+1 directly follows the pause
\* of keyword k; so between two requests of different keywords lies a pause.
C9_OnePausePerKeyword ==
    /\ [](\A k \in DOMAIN keywords :
            Cardinality(Events("sleep", k))
                = IF k < i \/ pc = "done" THEN 1 ELSE 0)
    /\ [](\A e \in DOMAIN trace :
            trace[e].op = "search" /\ trace[e].k > 1
                => (e > 1 /\ trace[e - 1].op = "sleep"
                          /\ trace[e - 1].k = trace[e].k - 1))
    /\ [](\A a, b \in DOMAIN trace :
            (a < b /\ trace[a].op # "sleep" /\ trace[b].op # "sleep"
                   /\ trace[a].k # trace[b].k)
                => \E c \in (a + 1)..(b - 1) : trace[c].op = "sleep")
    /\ [][(Len(trace') > Len(trace) /\ trace'[Len(trace')].op = "sleep")
            => (trace'[Len(trace')].k = i /\ kstate[i] \in Terminal
                /\ kstate' = kstate)]_vars

\* a finished run of three keywords, persisted, skipped and persisted, with
\* three pauses
C9_Witness ==
    /\ pc = "done"
    /\ kstate = <<"persisted", "skipped", "persisted">>
    /\ Cardinality({e \in DOMAIN trace : trace[e].op = "sleep"}) = 3
    /\ trace[Len(trace)].op = "sleep"

\* the last persisted position whose keyword has the file name `name`
LastPersisted(name) ==
    CHOOSE k \in Persisted :
        /\ JsonName(keywords[k]) = name
        /\ \A j \in Persisted : JsonName(keywords[j]) = name => j <= k

\* C10: the record files written are exactly the file names of the persisted
\* positions; each holds the record of the last persisted position with that
\* name; so there are as many files as distinct names, possibly fewer than
\* records.
C10_FilesAreLastRecordPerName ==
    /\ DOMAIN files = {JsonName(keywords[k]) : k \in Persisted}
    /\ \A name \in DOMAIN files :
          /\ files[name] = results[Rank(LastPersisted(name))]
          /\ files[name].keyword = keywords[LastPersisted(name)]
    /\ Cardinality(DOMAIN files) <= Len(results)

\* a finished run in which "C++" and then "c" were persisted with different
\* records: one file, c.json, holding the record of "c", and two records
C10_Witness ==
    /\ pc = "done"
    /\ Len(results) = 2 /\ Cardinality(DOMAIN files) = 1
    /\ results[1].keyword = <<"C", "+", "+">> /\ results[2].keyword = <<"c">>
    /\ results[1].title # results[2].title
    /\ files[<<"c", ".", "j", "s", "o", "n">>] = results[2]

----------------------------------------------------------------------------
\* Properties of the routines (specification UnitSpec)

\* "cpp_programming.json"
CppProgrammingJson ==
    <<"c", "p", "p", "_", "p", "r", "o", "g", "r", "a", "m", "m", "i", "n", "g">> \o JsonSuffix

\* "c_programming.json"
CProgrammingJson ==
    <<"c", "_", "p", "r", "o", "g", "r", "a", "m", "m", "i", "n", "g">> \o JsonSuffix

\* the characters of a keyword that are word characters or whitespace
Kept(keyword) == SelectSeq(keyword, LAMBDA c : c \in WordChars \cup SpaceChars)

\* the name described character by character: of the kept characters, a
\* space becomes an underscore and a letter its lower case
NameOf(keyword) ==
    [k \in 1..Len(Kept(keyword)) |->
        IF Kept(keyword)[k] = " " THEN "_" ELSE LowerChar(Kept(keyword)[k])] \o JsonSuffix

\* C4 as stated: the name is the keyword without punctuation, spaces turned
\* to underscores, lower-cased, plus .json, and "C++ Programming!" gives
\* cpp_programming.json
C4_CppProgrammingName ==
    (fn = "filename" /\ called) =>
        /\ output = NameOf(input)
        /\ input = CppKeyword => output = CppProgrammingJson

\* C4 as amended: the name is the keyword's word and whitespace characters
\* in order, each space turned to one underscore (no run of spaces is merged,
\* other whitespace such as a tab or a vertical tab stays), letters
\* lower-cased, plus .json; it holds no
\* space and no upper-case letter; "C++ Programming!" gives c_programming.json
C4_FileNameOfKeyword ==
    (fn = "filename" /\ called) =>
        /\ output = NameOf(input)
        /\ Len(output) = Len(Kept(input)) + Len(JsonSuffix)
        /\ \A k \in DOMAIN output : output[k] # " " /\ output[k] \notin UpperSet
        /\ input = CppKeyword => output = CProgrammingJson

\* the name of "C++ Programming!" has been computed
C4_Witness ==
    fn = "filename" /\ called /\ input = CppKeyword /\ output = CProgrammingJson

\* the rows of the first infobox, and those with a header and a data cell
Rows == IF input = <<>> THEN <<>> ELSE input[1]

Both == {k \in DOMAIN Rows : Rows[k].th # <<>> /\ Rows[k].td # <<>>}

HeaderOf(k) == Strip(Rows[k].th[1])

\* C7: the infobox mapping has one entry per distinct trimmed header among
\* the rows that have a header and a data cell, in the order of the headers'
\* first rows, valued with the trimmed data text of the last such row of the
\* header; rows without either cell add nothing.
C7_InfoboxLastRowPerHeader ==
    (fn = "infobox" /\ called) =>
        /\ DictKeys(output) = {HeaderOf(k) : k \in Both}
        /\ Len(output) = Cardinality({HeaderOf(k) : k \in Both})
        /\ \A e \in DOMAIN output :
              \E k \in Both :
                  /\ HeaderOf(k) = output[e][1]
                  /\ \A j \in Both : HeaderOf(j) = output[e][1] => j <= k
                  /\ output[e][2] = Strip(Rows[k].td[1])
        /\ \A a, b \in DOMAIN output :
              a < b => \E k \in Both :
                          /\ HeaderOf(k) = output[a][1]
                          /\ \A j \in Both : HeaderOf(j) = output[b][1] => k < j

\* three rows with both cells, the first and last with the same trimmed
\* header "K" and different data: one entry for K, holding the last data
C7_Witness ==
    /\ fn = "infobox" /\ called
    /\ Len(Rows) = 3 /\ Both = {1, 3}
    /\ HeaderOf(1) = HeaderOf(3) /\ Rows[1].th # Rows[3].th
    /\ Strip(Rows[1].td[1]) # Strip(Rows[3].td[1])
    /\ output = << <<HeaderOf(1), Strip(Rows[3].td[1])>> >>

\* the headings of the content area and their texts without the edit marker
Headings == {h \in DOMAIN input : input[h].name \in {"h2", "h3"}}

HeadingText(h) ==
    Strip(PartsText(SelectSeq(input[h].parts, LAMBDA p : p.cls # "mw-editsection")))

\* the first heading after h, or the end of the content area
NextHeading(h) ==
    IF \E g \in Headings : g > h
    THEN CHOOSE g \in Headings : g > h /\ \A f \in Headings : f > h => g <= f
    ELSE Len(input) + 1

ParagraphText(p) == Strip(PartsText(input[p].parts))

\* the trimmed texts of the paragraphs at positions from..(to - 1), each
\* followed by one space
RECURSIVE Trailed(_, _)
Trailed(from, to) ==
    IF from >= to THEN <<>>
    ELSE (IF input[from].name = "p" THEN ParagraphText(from) \o <<" ">> ELSE <<>>)
             \o Trailed(from + 1, to)

\* the same texts joined by single spaces
RECURSIVE Joined(_, _)
Joined(from, to) ==
    IF from >= to THEN <<>>
    ELSE IF input[from].name # "p" THEN Joined(from + 1, to)
    ELSE IF \E q \in (from + 1)..(to - 1) : input[q].name = "p"
         THEN ParagraphText(from) \o <<" ">> \o Joined(from + 1, to)
         ELSE ParagraphText(from)

\* the headings in document order
HeadingSeq ==
    LET F[n \in 0..Len(input)] ==
            IF n = 0 THEN <<>>
            ELSE IF n \in Headings THEN Append(F[n - 1], n) ELSE F[n - 1]
    IN F[Len(input)]

\* C5 as stated: one key per heading encountered, each valued with the
\* space-joined paragraph texts between that heading and the next heading
C5_OneKeyPerHeading ==
    (fn = "sections" /\ called) =>
        /\ Len(output) = Len(HeadingSeq)
        /\ \A e \in DOMAIN output :
              /\ output[e][1] = HeadingText(HeadingSeq[e])
              /\ output[e][2] = Joined(HeadingSeq[e] + 1, NextHeading(HeadingSeq[e]))

\* C5 as amended: one key per distinct trimmed heading text, in the order of
\* the texts' first headings; the value of a text is that of its last
\* heading: empty when the text is empty, and otherwise the trimmed texts of
\* the paragraphs between that heading and the next heading, each followed
\* by one space.
C5_OneKeyPerHeadingText ==
    (fn = "sections" /\ called) =>
        /\ DictKeys(output) = {HeadingText(h) : h \in Headings}
        /\ Len(output) = Cardinality({HeadingText(h) : h \in Headings})
        /\ \A e \in DOMAIN output :
              \E h \in Headings :
                  /\ HeadingText(h) = output[e][1]
                  /\ \A g \in Headings : HeadingText(g) = output[e][1] => g <= h
                  /\ output[e][2] = IF output[e][1] = <<>> THEN <<>>
                                    ELSE Trailed(h + 1, NextHeading(h))
        /\ \A a, b \in DOMAIN output :
              a < b => \E h \in Headings :
                          /\ HeadingText(h) = output[a][1]
                          /\ \A g \in Headings : HeadingText(g) = output[b][1] => h < g

\* a content area with a heading "A", a heading of empty text and a
\* paragraph, then a second heading of text "A" and a paragraph: the mapping
\* has the keys "A" and "", the first valued by the last paragraph and the
\* second empty
C5_Witness ==
    /\ fn = "sections" /\ called
    /\ Len(input) = 5
    /\ Headings = {1, 2, 4}
    /\ HeadingText(1) = <<"A">> /\ HeadingText(2) = <<>>
    /\ HeadingText(4) = <<"A">> /\ input[1] # input[4]
    /\ ParagraphText(3) = <<"x">> /\ ParagraphText(5) = <<"y", "z">>
    /\ output = << <<<<"A">>, <<"y", "z", " ">>>>, <<<<>>, <<>>>> >>

\* C6: the table has one row per record, carrying its keyword, title and
\* url; the row's summary is the record's when that has at most 200
\* characters, and otherwise its first 200 characters followed by "...".
C6_SummaryTruncatedOver200 ==
    (fn = "summary" /\ called) =>
        /\ Len(output) = Len(input)
        /\ \A a \in DOMAIN input :
              /\ output[a].keyword = input[a].keyword
              /\ output[a].title = input[a].title
              /\ output[a].url = input[a].url
              /\ Len(input[a].summary) <= 200 => output[a].summary = input[a].summary
              /\ Len(input[a].summary) > 200 =>
                    /\ Len(output[a].summary) = 203
                    /\ \A k \in 1..200 : output[a].summary[k] = input[a].summary[k]
                    /\ \A k \in 201..203 : output[a].summary[k] = "."

\* a table made from a record with a summary of 200 characters and one with a
\* summary of 201 characters
C6_Witness ==
    /\ fn = "summary" /\ called
    /\ Len(input) = 2
    /\ Len(input[1].summary) = 200 /\ Len(output[1].summary) = 200
    /\ Len(input[2].summary) = 201 /\ Len(output[2].summary) = 203

====
